---- MODULE Spec2Model ----
(***************************************************************************)
(* Model of hdx.scraper.clearglobal.pipeline.Pipeline: the change detector *)
(* (get_locations) and the country resource builder (get_pages,            *)
(* add_resources, generate_dataset).                                       *)
(*                                                                         *)
(* Text is modelled by TLA+ strings (f-strings and join by \o).  A date    *)
(* text is the tuple <<year, month, day>> it spells; parse_date turns it   *)
(* into a number whose order is the chronological order of datetimes.      *)
(* A list of rows is kept run-length encoded: a sequence of runs           *)
(* [row |-> r, n |-> k], k >= 1, adjacent runs holding different rows.     *)
(***************************************************************************)
EXTENDS Integers, Sequences, FiniteSets, TLC

\* ------------------------------------------------------------- bounds
\* Most locations one response of the remote location index holds.
MaxIndex == 2
\* Most full pages the remote holds for one (country, aggregation level).
MaxFullPages == 2

\* ---------------------------------------------------------- constants
\* page_size of every request, and the length get_pages compares with.
PageSize == 500

representivity_to_int ==
    [r \in {"very_high", "high", "moderate", "low", "very_low"} |->
        CASE r = "very_high" -> 0
          [] r = "high"      -> 1
          [] r = "moderate"  -> 2
          [] r = "low"       -> 3
          [] r = "very_low"  -> 4]

representivity_mapping ==
    [k \in 0..4 |->
        CASE k = 0 -> "Census"
          [] k = 1 -> "Representative survey at 95% confidence level and a 10% margin of error, or better"
          [] k = 2 -> "Representative survey, but less than 95% confidence level and/or greater than a 10% margin of error"
          [] k = 3 -> "Non-representative/indicative survey"
          [] k = 4 -> "Small scale, non-representative survey"]

\* ------------------------------------------------------------- dates
\* parse_date: the datetime a date text spells, as a number ordered like
\* datetimes (31 slots a month, 12 months a year).
parse_date(text) == (text[1] * 12 + (text[2] - 1)) * 31 + (text[3] - 1)

\* hdx.utilities.dateparse.default_date / default_enddate
default_date == parse_date(<<1, 1, 1>>)
default_enddate == parse_date(<<9999, 12, 31>>)

\* ------------------------------------------------- the environment
\* Identifiers the remote index can list; the location registry knows BEN.
Countries == {"BEN", "XXX"}
KnownCountries == {"BEN"}

\* Country.get_country_name_from_iso3: the display name, None when unknown
\* (formatted by the f-string as "None").
get_country_name_from_iso3(iso3) == IF iso3 = "BEN" THEN "Benin" ELSE "None"

DateTexts == {<<2013, 12, 31>>, <<2017, 1, 1>>, <<2020, 6, 15>>}

\* json["data"] of the location index: at most MaxIndex location records.
LocationRecords == [location_code : Countries, date_creation : DateTexts]
IndexData == UNION {[1..n -> LocationRecords] : n \in 0..MaxIndex}

\* The rows the remote serves: one kind of row per rating.
RowKinds ==
    { [source |-> "IPUMS International", datetime_published |-> <<2013, 12, 31>>,
       representivity_rating |-> "very_high"],
      [source |-> "DHS", datetime_published |-> <<2017, 1, 1>>,
       representivity_rating |-> "high"],
      [source |-> "IPUMS International", datetime_published |-> <<2020, 6, 15>>,
       representivity_rating |-> "moderate"],
      [source |-> "DHS", datetime_published |-> <<2013, 12, 31>>,
       representivity_rating |-> "low"],
      [source |-> "DHS", datetime_published |-> <<2017, 1, 1>>,
       representivity_rating |-> "very_low"] }

\* A row whose representivity_rating is None (JSON null).
NoneRating == "<None>"
UnratedRows ==
    { [source |-> "DHS", datetime_published |-> <<2017, 1, 1>>,
       representivity_rating |-> NoneRating] }

\* Rows of a short last page.
TailRows == 237

Run(r, k) == [row |-> r, n |-> k]

\* The row lists the remote can hold for one (country, aggregation level):
\* none, rows of one kind, full pages of one kind then a short page of
\* another, or a short page of rows without a rating.
RemoteDatasets ==
    LET counts == {f * PageSize + t : f \in 0..MaxFullPages, t \in {0, TailRows}}
        kinds2 == {p \in RowKinds \X RowKinds : p[1] # p[2]}
    IN  {<<>>}
        \cup {<<Run(r, k)>> : r \in RowKinds, k \in counts \ {0}}
        \cup {<<Run(p[1], f * PageSize), Run(p[2], TailRows)>> :
                p \in kinds2, f \in 1..MaxFullPages}
        \cup {<<Run(r, TailRows)>> : r \in UnratedRows}

\* ------------------------------------------------------- row lists
\* len(rows)
RECURSIVE RowCount(_)
RowCount(rows) ==
    IF rows = <<>> THEN 0 ELSE Head(rows).n + RowCount(Tail(rows))

\* rows[k:]
RECURSIVE DropRows(_, _)
DropRows(rows, k) ==
    IF k = 0 \/ rows = <<>> THEN rows
    ELSE IF Head(rows).n <= k THEN DropRows(Tail(rows), k - Head(rows).n)
    ELSE <<Run(Head(rows).row, Head(rows).n - k)>> \o Tail(rows)

\* rows[:k]
RECURSIVE TakeRows(_, _)
TakeRows(rows, k) ==
    IF k = 0 \/ rows = <<>> THEN <<>>
    ELSE IF Head(rows).n <= k
         THEN <<Head(rows)>> \o TakeRows(Tail(rows), k - Head(rows).n)
    ELSE <<Run(Head(rows).row, k)>>

\* list.extend: a followed by b.
Extend(a, b) ==
    IF a = <<>> THEN b
    ELSE IF b = <<>> THEN a
    ELSE IF a[Len(a)].row = Head(b).row
         THEN SubSeq(a, 1, Len(a) - 1)
              \o <<Run(Head(b).row, a[Len(a)].n + Head(b).n)>>
              \o Tail(b)
    ELSE a \o b

\* The remote's answer to a request of page p with page_size PageSize.
RemotePage(rows, p) == TakeRows(DropRows(rows, p * PageSize), PageSize)

\* ------------------------------------------------ get_locations, pure
\* state.get(countryiso3, state["DEFAULT"])
StateGet(st, key) == IF key \in DOMAIN st THEN st[key] ELSE st["DEFAULT"]

\* Mutant of StatePut: nothing is stored.
StatePut_dropped(st, key, value) == st

\* Mutant of StatePut: the value is stored as the DEFAULT watermark.
StatePut_default(st, key, value) == [st EXCEPT !["DEFAULT"] = value]

\* state[countryiso3] = last_modified
StatePut(st, key, value) ==
    [k \in DOMAIN st \cup {key} |-> IF k = key THEN value ELSE st[k]]

\* Mutant of report_location: the location is put first.
report_location_first(found, iso3) == <<[iso3 |-> iso3]>> \o found

\* Line 56: locations.append({"iso3": countryiso3})
report_location(found, iso3) == Append(found, [iso3 |-> iso3])

\* Mutant of request_parameters: every request asks for level 0.
request_parameters_level_0(iso3, level, number) ==
    [url |-> "location/" \o iso3, aggregation |-> 0,
     page_size |-> PageSize, page |-> number]

\* Lines 61, 65..70: the url and parameters of one page request.
request_parameters(iso3, level, number) ==
    [url |-> "location/" \o iso3, aggregation |-> level,
     page_size |-> PageSize, page |-> number]

\* Mutant of builder_state: the entry of the country is removed.
builder_state_rolled_back(st, iso3) == [k \in DOMAIN st \ {iso3} |-> st[k]]

\* Lines 59..172: get_pages, add_resources and generate_dataset are not given
\* the state mapping and assign nothing to it.
builder_state(st, iso3) == st

\* Mutant of download_error_outcome: the error is swallowed.
download_error_swallowed == "Dataset"

\* Lines 72..74, 91, 166: no handler encloses download_json; what it raises
\* leaves get_pages, add_resources and generate_dataset.
download_error_outcome == "DownloadError"

\* Mutant of is_modified: a watermark equal to the remote timestamp counts.
is_modified_or_equal(last_modified, watermark) == last_modified >= watermark

\* The comparison of line 54.
is_modified(last_modified, watermark) == last_modified > watermark

\* ---------------------------------------------------- get_pages, pure
\* Mutant of last_page: only an empty page ends the loop.
last_page_when_empty(data) == RowCount(data) = 0

\* The return condition of line 77.
last_page(data) == RowCount(data) # PageSize \/ RowCount(data) = 0

\* ------------------------------------------------ add_resources, pure
\* Mutant of add_row: the earliest date is compared the wrong way round.
add_row_earliest_reversed(agg, row) ==
    LET published == parse_date(row.datetime_published)
    IN  [earliest_start_date |->
            IF published > agg.earliest_start_date
            THEN published ELSE agg.earliest_start_date,
         latest_end_date |->
            IF published > agg.latest_end_date
            THEN published ELSE agg.latest_end_date,
         dataset_sources |-> agg.dataset_sources \cup {row.source},
         rep_rating_strs |-> agg.rep_rating_strs \cup {row.representivity_rating}]

\* Mutant of add_row: the rating of the row is not recorded.
add_row_without_rating(agg, row) ==
    LET published == parse_date(row.datetime_published)
    IN  [earliest_start_date |->
            IF published < agg.earliest_start_date
            THEN published ELSE agg.earliest_start_date,
         latest_end_date |->
            IF published > agg.latest_end_date
            THEN published ELSE agg.latest_end_date,
         dataset_sources |-> agg.dataset_sources \cup {row.source},
         rep_rating_strs |-> agg.rep_rating_strs]

\* The body of the row loop, lines 95..101, on the running aggregate.
add_row(agg, row) ==
    LET published == parse_date(row.datetime_published)
    IN  [earliest_start_date |->
            IF published < agg.earliest_start_date
            THEN published ELSE agg.earliest_start_date,
         latest_end_date |->
            IF published > agg.latest_end_date
            THEN published ELSE agg.latest_end_date,
         dataset_sources |-> agg.dataset_sources \cup {row.source},
         rep_rating_strs |-> agg.rep_rating_strs \cup {row.representivity_rating}]

\* for row in data: a run of equal rows changes the aggregate as its first
\* row does (minimum, maximum and set insertion are idempotent).
RECURSIVE add_rows(_, _)
add_rows(agg, data) ==
    IF data = <<>> THEN agg
    ELSE add_rows(add_row(agg, Head(data).row), Tail(data))

\* Lines 102..113.
resource_name(countryiso3, aggregation) ==
    "clearglobal_language_use_" \o countryiso3 \o "_admin"
        \o ToString(aggregation) \o ".csv"

resource_description(countryiso3, aggregation) ==
    IF aggregation # 0
    THEN "Languages used in " \o countryiso3 \o " by Admin " \o ToString(aggregation)
    ELSE "Languages used in " \o countryiso3

resource_pcoded(aggregation) == aggregation # 0

\* Mutant of resourcedata: every resource is flagged P-coded.
resourcedata_all_pcoded(countryiso3, aggregation) ==
    [name |-> resource_name(countryiso3, aggregation),
     description |-> resource_description(countryiso3, aggregation),
     p_coded |-> TRUE]

resourcedata(countryiso3, aggregation) ==
    [name |-> resource_name(countryiso3, aggregation),
     description |-> resource_description(countryiso3, aggregation),
     p_coded |-> resource_pcoded(aggregation)]

\* The orders in which a Python set can be iterated.
Orders(S) ==
    {s \in [1..Cardinality(S) -> S] :
        \A a, b \in 1..Cardinality(S) : a # b => s[a] # s[b]}

\* Mutant of sorted: the list is left in the order of iteration.
unsorted(seq) == seq

\* sorted(ints), ascending.
RECURSIVE insert_sorted(_, _)
insert_sorted(x, seq) ==
    IF seq = <<>> THEN <<x>>
    ELSE IF x <= Head(seq) THEN <<x>> \o seq
    ELSE <<Head(seq)>> \o insert_sorted(x, Tail(seq))

RECURSIVE sorted(_)
sorted(seq) ==
    IF seq = <<>> THEN <<>> ELSE insert_sorted(Head(seq), sorted(Tail(seq)))

\* sep.join(strings)
RECURSIVE join(_, _)
join(sep, strings) ==
    IF strings = <<>> THEN ""
    ELSE IF Len(strings) = 1 THEN strings[1]
    ELSE strings[1] \o sep \o join(sep, Tail(strings))

\* Lines 130..136, for the ratings in the order the set yields them.
methodology_of(rating_order) ==
    LET rep_rating_ints ==
            [k \in 1..Len(rating_order) |-> representivity_to_int[rating_order[k]]]
        ranked == sorted(rep_rating_ints)
        methodology == [k \in 1..Len(ranked) |-> representivity_mapping[ranked[k]]]
    IN  join("; ", methodology)

\* configuration["description"].format(...), the template abridged.
notes_of(countryname, source_order) ==
    "Data on languages spoken in " \o countryname \o ". Data is drawn from "
        \o join(", ", source_order) \o "."

\* ------------------------------------------------------------ state
Unset == "<unset>"

\* A value for the locals of a call that is not running.
NoDataset ==
    [title |-> Unset, groups |-> <<>>, resources |-> <<>>, time_period |-> <<>>,
     methodology |-> Unset, methodology_other |-> Unset, notes |-> Unset,
     tags |-> <<>>, subnational |-> Unset]

\* Dataset({"name": ..., "title": dataset_title})
NewDataset(title) == [NoDataset EXCEPT !.title = title]

NoAggregate ==
    [earliest_start_date |-> default_enddate, latest_end_date |-> default_date,
     dataset_sources |-> {}, rep_rating_strs |-> {}]

\* The choices the code makes that the actions below use.
\* Mutant of emits_resource: the test of line 92 is missing.
emits_resource_always(rows) == TRUE

\* Line 92: a level with no rows is skipped.
emits_resource(rows) == rows # <<>>

\* Mutant of next_page: the page number is not advanced.
next_page_stuck(p) == p

\* Line 79.
next_page(p) == p + 1

\* Mutant of unknown_country_outcome: HDXError is not caught.
unknown_country_raises == "HDXError"

\* Lines 162..164: HDXError is caught and None returned.
unknown_country_outcome == "None"

\* Mutant of methodology_fields: "Census" is not told apart.
methodology_always_other(methodology_str) ==
    [methodology |-> "Other", methodology_other |-> methodology_str]

\* Lines 137..141.
methodology_fields(methodology_str) ==
    IF methodology_str = "Census"
    THEN [methodology |-> "Census", methodology_other |-> Unset]
    ELSE [methodology |-> "Other", methodology_other |-> methodology_str]

Levels == 0..2

VARIABLES
    state,          \* the run state: identifier or "DEFAULT" -> watermark
    state_in,       \* history: state when the running/latest call was entered
    pc,             \* "idle", or the place the running call has reached
    outcome,        \* of the latest call: "", "running", "list", "None",
                    \* "Dataset", "KeyError", "DownloadError"
    json,           \* get_locations: json["data"] as downloaded
    todo,           \* get_locations: the part of json["data"] still to visit
    locations,      \* get_locations: the list built, then returned
    countryiso3,    \* generate_dataset's argument
    dataset,        \* generate_dataset: the Dataset built, then returned
    aggregation,    \* add_resources: the loop variable
    aggregate,      \* add_resources: earliest_start_date, latest_end_date,
                    \* dataset_sources, rep_rating_strs
    has_resources,  \* add_resources
    methodology_str,\* add_resources: "" until line 136 sets it
    exit_at,        \* add_resources: "" or the line it returned at
    remote,         \* the rows the remote holds for (countryiso3, aggregation)
    page,           \* get_pages
    all_data,       \* get_pages
    data,           \* add_resources: what get_pages returned
    requests,       \* history: the pages the running get_pages has requested
    downloads,      \* history: url and parameters of each of these requests
    repeat,         \* history: this get_locations got the response of the one before
    fetch_error,    \* history: download_json raised in this generate_dataset
    levels_with_rows, \* history: the levels get_pages returned rows for
    rows_seen       \* history: the kinds of row get_pages returned so far

vars ==
    <<state, state_in, pc, outcome, json, todo, locations, countryiso3, dataset,
      aggregation, aggregate, has_resources, methodology_str, exit_at, remote,
      page, all_data, data, requests, levels_with_rows, rows_seen, repeat,
      fetch_error, downloads>>

detector_vars == <<json, todo, locations, repeat>>
paging_vars == <<remote, page, all_data, data, requests, downloads>>
builder_vars ==
    <<countryiso3, dataset, aggregation, aggregate, has_resources,
      methodology_str, exit_at, paging_vars, levels_with_rows, rows_seen,
      fetch_error>>

\* The state mappings a run starts with: the DEFAULT watermark alone, or with
\* a watermark stored for BEN by an earlier run.
InitialStates ==
    { [k \in {"DEFAULT"} |-> parse_date(<<2017, 1, 1>>)],
      [k \in {"DEFAULT", "BEN"} |->
          IF k = "BEN" THEN parse_date(<<2013, 12, 31>>)
          ELSE parse_date(<<2017, 1, 1>>)] }

Init ==
    /\ state \in InitialStates
    /\ state_in = state
    /\ pc = "idle"
    /\ outcome = ""
    /\ json = <<>>
    /\ todo = <<>>
    /\ locations = <<>>
    /\ countryiso3 = ""
    /\ dataset = NoDataset
    /\ aggregation = 0
    /\ aggregate = NoAggregate
    /\ has_resources = FALSE
    /\ methodology_str = ""
    /\ exit_at = ""
    /\ remote = <<>>
    /\ page = 0
    /\ all_data = <<>>
    /\ data = <<>>
    /\ requests = <<>>
    /\ levels_with_rows = {}
    /\ rows_seen = {}
    /\ repeat = FALSE
    /\ fetch_error = FALSE
    /\ downloads = <<>>

\* The locals of get_pages and add_resources go out of scope.
DropLocals ==
    /\ aggregation' = 0
    /\ aggregate' = NoAggregate
    /\ has_resources' = FALSE
    /\ remote' = <<>>
    /\ page' = 0
    /\ all_data' = <<>>
    /\ data' = <<>>
    /\ requests' = <<>>
    /\ downloads' = <<>>

\* A new call: nothing is left of the call before.
ForgetBuilder ==
    /\ countryiso3' = ""
    /\ dataset' = NoDataset
    /\ methodology_str' = ""
    /\ exit_at' = ""
    /\ levels_with_rows' = {}
    /\ rows_seen' = {}
    /\ fetch_error' = FALSE
    /\ DropLocals

\* -------------------------------------------------------- get_locations
\* Lines 42..50: the index is downloaded and holds "data".
GetLocations ==
    /\ pc = "idle"
    /\ \E response \in IndexData :
         /\ json' = response
         /\ todo' = response
         /\ repeat' = (outcome = "list" /\ countryiso3 = "" /\ response = json)
    /\ locations' = <<>>
    /\ pc' = "get_locations"
    /\ outcome' = "running"
    /\ state_in' = state
    /\ ForgetBuilder
    /\ UNCHANGED state

\* Lines 49..51: the downloaded body has no "data": json["data"] raises.
GetLocationsNoData ==
    /\ pc = "idle"
    /\ json' = <<>>
    /\ todo' = <<>>
    /\ locations' = <<>>
    /\ outcome' = "KeyError"
    /\ repeat' = FALSE
    /\ state_in' = state
    /\ ForgetBuilder
    /\ UNCHANGED <<state, pc>>

\* Lines 51..56: one turn of the loop.
VisitLocation ==
    /\ pc = "get_locations"
    /\ todo # <<>>
    /\ LET location == Head(todo)
           iso3 == location.location_code
           last_modified == parse_date(location.date_creation)
       IN  IF is_modified(last_modified, StateGet(state, iso3))
           THEN /\ state' = StatePut(state, iso3, last_modified)
                /\ locations' = report_location(locations, iso3)
           ELSE UNCHANGED <<state, locations>>
    /\ todo' = Tail(todo)
    /\ UNCHANGED <<state_in, pc, outcome, json, repeat, builder_vars>>

\* Line 57.
ReturnLocations ==
    /\ pc = "get_locations"
    /\ todo = <<>>
    /\ pc' = "idle"
    /\ outcome' = "list"
    /\ UNCHANGED <<state, state_in, json, todo, locations, repeat, builder_vars>>

\* ----------------------------------------------------- generate_dataset
\* Lines 147..166 and 84..91: the call, up to the first page request; for a
\* country add_country_location does not know, the whole call.
GenerateDataset ==
    /\ pc = "idle"
    /\ \E iso3 \in Countries :
         /\ countryiso3' = iso3
         /\ IF iso3 \in KnownCountries
            THEN /\ dataset' =
                      [NewDataset(get_country_name_from_iso3(iso3) \o ": Languages")
                          EXCEPT !.groups = <<iso3>>]
                 /\ outcome' = "running"
                 /\ pc' = "get_pages"
                 /\ remote' \in RemoteDatasets
            ELSE /\ dataset' = NoDataset
                 /\ outcome' = unknown_country_outcome
                 /\ pc' = "idle"
                 /\ remote' = <<>>
    /\ aggregation' = 0
    /\ aggregate' = NoAggregate
    /\ has_resources' = FALSE
    /\ methodology_str' = ""
    /\ exit_at' = ""
    /\ page' = 0
    /\ all_data' = <<>>
    /\ data' = <<>>
    /\ requests' = <<>>
    /\ downloads' = <<>>
    /\ levels_with_rows' = {}
    /\ rows_seen' = {}
    /\ fetch_error' = FALSE
    /\ state_in' = state
    /\ json' = <<>>
    /\ todo' = <<>>
    /\ locations' = <<>>
    /\ repeat' = FALSE
    /\ state' = builder_state(state, countryiso3')

\* Lines 64..79: one turn of the loop of get_pages.
DownloadPage ==
    /\ pc = "get_pages"
    /\ requests' = Append(requests, page)
    /\ downloads' =
          Append(downloads, request_parameters(countryiso3, aggregation, page))
    /\ LET downloaded == RemotePage(remote, page)
       IN  /\ all_data' = Extend(all_data, downloaded)
           /\ IF last_page(downloaded)
              THEN /\ data' = all_data'
                   /\ pc' = "add_resources"
                   /\ UNCHANGED page
              ELSE /\ page' = next_page(page)
                   /\ UNCHANGED <<data, pc>>
    /\ state' = builder_state(state, countryiso3)
    /\ UNCHANGED <<state_in, outcome, detector_vars, countryiso3, dataset,
                   aggregation, aggregate, has_resources, methodology_str,
                   exit_at, remote, levels_with_rows, rows_seen, fetch_error>>

\* Lines 72..74: download_json raises; nothing catches it.
DownloadFails ==
    /\ pc = "get_pages"
    /\ pc' = "idle"
    /\ fetch_error' = TRUE
    /\ outcome' = download_error_outcome
    /\ dataset' = NoDataset
    /\ DropLocals
    /\ state' = builder_state(state, countryiso3)
    /\ UNCHANGED <<state_in, detector_vars, countryiso3, methodology_str,
                   exit_at, levels_with_rows, rows_seen>>

\* Lines 91..121: the rows of one level are folded and its resource made;
\* then the next level's get_pages is entered, or the loop left.
AddLevel ==
    /\ pc = "add_resources"
    /\ levels_with_rows' =
          IF RowCount(data) > 0 THEN levels_with_rows \cup {aggregation}
          ELSE levels_with_rows
    /\ rows_seen' = rows_seen \cup {data[k].row : k \in 1..Len(data)}
    /\ IF emits_resource(data)
       THEN /\ aggregate' = add_rows(aggregate, data)
            /\ dataset' =
                  [dataset EXCEPT
                     !.resources = Append(@, resourcedata(countryiso3, aggregation))]
            /\ has_resources' = TRUE
       ELSE UNCHANGED <<aggregate, dataset, has_resources>>
    /\ page' = 0
    /\ all_data' = <<>>
    /\ data' = <<>>
    /\ requests' = <<>>
    /\ downloads' = <<>>
    /\ IF aggregation + 1 \in Levels
       THEN /\ aggregation' = aggregation + 1
            /\ remote' \in RemoteDatasets
            /\ pc' = "get_pages"
       ELSE /\ remote' = <<>>
            /\ pc' = "after_levels"
            /\ UNCHANGED aggregation
    /\ state' = builder_state(state, countryiso3)
    /\ UNCHANGED <<state_in, outcome, detector_vars, countryiso3,
                   methodology_str, exit_at, fetch_error>>

\* Line 132 would look up a rating that representivity_to_int does not hold.
unknown_rating ==
    /\ has_resources
    /\ \E r \in aggregate.rep_rating_strs : r \notin DOMAIN representivity_to_int

\* Lines 122..132: representivity_to_int[rep_rating_str] raises KeyError;
\* nothing catches it.
RatingKeyError ==
    /\ pc = "after_levels"
    /\ unknown_rating
    /\ exit_at' = "132"
    /\ outcome' = "KeyError"
    /\ pc' = "idle"
    /\ dataset' = NoDataset
    /\ DropLocals
    /\ state' = builder_state(state, countryiso3)
    /\ UNCHANGED <<state_in, detector_vars, countryiso3, methodology_str,
                   levels_with_rows, rows_seen, fetch_error>>

\* Lines 122..145, then 167..172: add_resources ends, by one of its returns;
\* generate_dataset drops what it returned and returns the dataset.
ReturnDataset ==
    /\ pc = "after_levels"
    /\ ~unknown_rating
    /\ \E rating_order \in Orders(aggregate.rep_rating_strs),
          source_order \in Orders(aggregate.dataset_sources) :
          LET timed ==
                  [dataset EXCEPT
                     !.time_period = <<aggregate.earliest_start_date,
                                       aggregate.latest_end_date>>]
              narrative == methodology_of(rating_order)
              fields == methodology_fields(narrative)
              described ==
                  [timed EXCEPT
                     !.methodology = fields.methodology,
                     !.methodology_other = fields.methodology_other,
                     !.notes = notes_of(get_country_name_from_iso3(countryiso3),
                                        source_order)]
              added ==
                  IF ~has_resources THEN dataset
                  ELSE IF Cardinality(aggregate.rep_rating_strs) = 0 THEN timed
                  ELSE described
          IN  /\ exit_at' =
                    IF ~has_resources THEN "123"
                    ELSE IF Cardinality(aggregate.rep_rating_strs) = 0 THEN "129"
                    ELSE "145"
              /\ methodology_str' =
                    IF has_resources /\ Cardinality(aggregate.rep_rating_strs) # 0
                    THEN narrative ELSE ""
              /\ dataset' =
                    [added EXCEPT !.tags = <<"languages">>, !.subnational = "1"]
    /\ outcome' = "Dataset"
    /\ pc' = "idle"
    /\ DropLocals
    /\ state' = builder_state(state, countryiso3)
    /\ UNCHANGED <<state_in, detector_vars, countryiso3,
                   levels_with_rows, rows_seen, fetch_error>>

Next ==
    \/ GetLocations
    \/ GetLocationsNoData
    \/ VisitLocation
    \/ ReturnLocations
    \/ GenerateDataset
    \/ DownloadPage
    \/ DownloadFails
    \/ AddLevel
    \/ RatingKeyError
    \/ ReturnDataset

Spec == Init /\ [][Next]_vars

\* The program runs on: a download returns or raises.
FairSpec == Spec /\ WF_vars(DownloadPage \/ DownloadFails)

TypeOK ==
    pc \in {"idle", "get_locations", "get_pages", "add_resources", "after_levels"}

\* ------------------------------------------------------------ claims
BenOnly == [k \in {"DEFAULT"} |-> parse_date(<<2017, 1, 1>>)]

\* C1: in a turn of the loop of get_locations on a location with remote
\* timestamp ts and watermark T (state[identifier] if present, else
\* state["DEFAULT"]): if ts <= T the location is not reported and state is
\* left as it was; if ts > T the identifier is appended to the result and
\* state[identifier] becomes ts.
C1_StrictComparison ==
    [][ (pc = "get_locations" /\ todo # <<>>) =>
          LET id == Head(todo).location_code
              ts == parse_date(Head(todo).date_creation)
              T == IF id \in DOMAIN state THEN state[id] ELSE state["DEFAULT"]
          IN  /\ ts <= T => (locations' = locations /\ state' = state)
              /\ ts > T => /\ locations' = Append(locations, [iso3 |-> id])
                           /\ id \in DOMAIN state'
                           /\ state'[id] = ts
                           /\ \A k \in DOMAIN state : k # id => state'[k] = state[k]
      ]_vars

\* C1 witness: BEN listed twice, first with the DEFAULT watermark's own
\* timestamp (not reported), then with a later one (reported, stored).
C1_Witness ==
    /\ outcome = "list"
    /\ state_in = BenOnly
    /\ json = << [location_code |-> "BEN", date_creation |-> <<2017, 1, 1>>],
                 [location_code |-> "BEN", date_creation |-> <<2020, 6, 15>>] >>
    /\ locations = << [iso3 |-> "BEN"] >>
    /\ state["BEN"] = parse_date(<<2020, 6, 15>>)

\* Page p of the remote's rows holds exactly PageSize rows.
FullPage(p) == RowCount(RemotePage(remote, p)) = PageSize

RECURSIVE PagesInOrder(_)
PagesInOrder(pages) ==
    IF pages = <<>> THEN <<>>
    ELSE Extend(PagesInOrder(SubSeq(pages, 1, Len(pages) - 1)),
                RemotePage(remote, pages[Len(pages)]))

\* C2: get_pages requests pages 0, 1, 2, ... in order, each once; a page is
\* followed by a request of the next exactly when it held PageSize rows; the
\* call returns at the first page with fewer rows, and returns the rows of
\* all requested pages in page order.
C2_Paging ==
    pc \in {"get_pages", "add_resources"} =>
        /\ requests = [k \in 1..Len(requests) |-> k - 1]
        /\ \A k \in 1..Len(requests) : k < Len(requests) => FullPage(requests[k])
        /\ pc = "get_pages" =>
              /\ page = Len(requests)
              /\ Len(requests) > 0 => FullPage(requests[Len(requests)])
        /\ pc = "add_resources" =>
              /\ Len(requests) >= 1
              /\ RowCount(RemotePage(remote, requests[Len(requests)])) < PageSize
              /\ data = PagesInOrder(requests)

\* C2 witness: two full pages and a short one were requested and returned.
C2_Witness ==
    /\ pc = "add_resources"
    /\ requests = <<0, 1, 2>>
    /\ Len(data) = 2
    /\ RowCount(data) = 2 * PageSize + TailRows

\* C3: the requests of one get_pages are at most N \div PageSize + 1, N the
\* rows the remote holds; while in the loop the page number is at most
\* N \div PageSize; two full pages and a short one give 3 requests and all
\* N rows, no rows give 1 request and no rows.
C3_RequestsBounded ==
    pc \in {"get_pages", "add_resources"} =>
        LET N == RowCount(remote)
        IN  /\ Len(requests) <= N \div PageSize + 1
            /\ pc = "get_pages" => page <= N \div PageSize
            /\ (pc = "add_resources" /\ N = 2 * PageSize + TailRows) =>
                  (Len(requests) = 3 /\ RowCount(data) = N)
            /\ (pc = "add_resources" /\ N = 0) =>
                  (Len(requests) = 1 /\ RowCount(data) = 0)

\* C3 witness: a level with no rows at all returned after one request.
C3_Witness ==
    /\ pc = "add_resources"
    /\ remote = <<>>
    /\ requests = <<0>>
    /\ data = <<>>

\* The k-th smallest of the levels get_pages returned rows for.
KthLevel(k) ==
    CHOOSE l \in levels_with_rows :
        Cardinality({m \in levels_with_rows : m < l}) = k - 1

BenResourceName(l) ==
    CASE l = 0 -> "clearglobal_language_use_BEN_admin0.csv"
      [] l = 1 -> "clearglobal_language_use_BEN_admin1.csv"
      [] l = 2 -> "clearglobal_language_use_BEN_admin2.csv"

BenResourceDescription(l) ==
    CASE l = 0 -> "Languages used in BEN"
      [] l = 1 -> "Languages used in BEN by Admin 1"
      [] l = 2 -> "Languages used in BEN by Admin 2"

\* generate_dataset is building, or has returned, a dataset for BEN.
BenDataset == countryiso3 = "BEN" /\ outcome \in {"running", "Dataset"}

\* C4 (as claimed): a dataset generate_dataset returns has at least one
\* resource; with no rows at any level no dataset is returned.
C4_ReturnedDatasetHasResource ==
    outcome = "Dataset" => Len(dataset.resources) >= 1

\* C5: the dataset holds one resource per level that get_pages returned rows
\* for and none for the other levels, in ascending order of level.
C5_ResourcePerLevelWithRows ==
    BenDataset =>
        /\ Len(dataset.resources) = Cardinality(levels_with_rows)
        /\ \A k \in 1..Len(dataset.resources) :
              k <= Cardinality(levels_with_rows) =>
                  dataset.resources[k].name = BenResourceName(KthLevel(k))

\* C5 witness: rows at levels 0 and 1 only, two resources returned.
C5_Witness ==
    /\ outcome = "Dataset"
    /\ levels_with_rows = {0, 1}
    /\ Len(dataset.resources) = 2
    /\ dataset.resources[2].name = "clearglobal_language_use_BEN_admin1.csv"

RatingsSeen == {r.representivity_rating : r \in rows_seen}

\* The texts of the ranks in `ranks`, from rank k on, in ascending rank.
RECURSIVE TextsFrom(_, _)
TextsFrom(k, ranks) ==
    IF k > 4 THEN <<>>
    ELSE (IF k \in ranks THEN <<representivity_mapping[k]>> ELSE <<>>)
         \o TextsFrom(k + 1, ranks)

Narrative(ratings) ==
    join("; ", TextsFrom(0, {representivity_to_int[r] : r \in ratings}))

\* C6: for a returned dataset of a country with rows, methodology is
\* "Census" and methodology_other is not set exactly when the ratings seen
\* are {"very_high"}; for any other ratings methodology is "Other" and
\* methodology_other is the whole narrative.
C6_MethodologyClassification ==
    (outcome = "Dataset" /\ levels_with_rows # {} /\ RatingsSeen # {}) =>
        /\ RatingsSeen = {"very_high"} =>
              /\ dataset.methodology = "Census"
              /\ dataset.methodology_other = Unset
        /\ RatingsSeen # {"very_high"} =>
              /\ dataset.methodology = "Other"
              /\ dataset.methodology_other = Narrative(RatingsSeen)

\* C6 witness: only very_high seen, over more than one level.
C6_Witness ==
    /\ outcome = "Dataset"
    /\ RatingsSeen = {"very_high"}
    /\ Cardinality(levels_with_rows) >= 2
    /\ dataset.methodology = "Census"
    /\ dataset.methodology_other = Unset

HighLowNarrative ==
    "Representative survey at 95% confidence level and a 10% margin of error, or better; Non-representative/indicative survey"

\* C7: the narrative is the texts of the distinct ratings seen, each once,
\* in ascending rank, joined by "; ", whatever the order the set of ratings
\* is iterated in; {"high", "low"} give the rank-1 text then the rank-3 text.
C7_NarrativeOrdering ==
    (outcome = "Dataset" /\ levels_with_rows # {} /\ RatingsSeen # {}) =>
        /\ methodology_str = Narrative(RatingsSeen)
        /\ RatingsSeen = {"high", "low"} => methodology_str = HighLowNarrative

\* C7 witness: high and low seen.
C7_Witness ==
    /\ outcome = "Dataset"
    /\ RatingsSeen = {"high", "low"}
    /\ methodology_str = HighLowNarrative
    /\ dataset.methodology_other = HighLowNarrative

PublishedSeen == {parse_date(r.datetime_published) : r \in rows_seen}

\* C8: a time period that is set runs from the least to the greatest
\* publication timestamp of the rows of all levels together; its start is
\* not after its end and neither is a sentinel.
C8_TimePeriod ==
    dataset.time_period # <<>> =>
        /\ PublishedSeen # {}
        /\ \A d \in PublishedSeen :
              dataset.time_period[1] <= d /\ d <= dataset.time_period[2]
        /\ dataset.time_period[1] \in PublishedSeen
        /\ dataset.time_period[2] \in PublishedSeen
        /\ dataset.time_period[1] <= dataset.time_period[2]
        /\ dataset.time_period[1] # default_enddate
        /\ dataset.time_period[2] # default_date

\* C8 witness: the period spans rows of different dates.
C8_Witness ==
    /\ outcome = "Dataset"
    /\ Cardinality(levels_with_rows) = 3
    /\ dataset.time_period =
          <<parse_date(<<2013, 12, 31>>), parse_date(<<2020, 6, 15>>)>>

C10_UnknownCountry ==
    (countryiso3 # "" /\ countryiso3 \notin KnownCountries) =>
        /\ pc = "idle"
        /\ outcome = "None"
        /\ requests = <<>>
        /\ levels_with_rows = {}
        /\ dataset = NoDataset

\* C10 witness: generate_dataset("XXX") has returned None.
C10_Witness ==
    /\ countryiso3 = "XXX"
    /\ pc = "idle"
    /\ outcome = "None"
    /\ requests = <<>>

\* A call of generate_dataset that requested every level has ended.
BuilderEnded ==
    /\ pc = "idle"
    /\ countryiso3 \in KnownCountries
    /\ outcome \notin {"running", "DownloadError"}

\* C11 (as claimed): when rows exist for a country and none of them carries a
\* rating, add_resources reports it at line 128 and the country is skipped:
\* generate_dataset returns no dataset and sets no methodology.
C11_NoRatingSkipped ==
    (BuilderEnded /\ levels_with_rows # {} /\ RatingsSeen \subseteq {NoneRating}) =>
        /\ exit_at = "129"
        /\ outcome = "None"
        /\ dataset = NoDataset

\* C18: once a resource is made the set of ratings is not empty, every row
\* seen having added its rating value; add_resources never returns at line
\* 129; a returned dataset with a resource has methodology "Census" or
\* "Other".
C18_RatingsNeverEmpty ==
    /\ has_resources => aggregate.rep_rating_strs # {}
    /\ (outcome = "running" /\ pc # "idle") =>
          aggregate.rep_rating_strs = RatingsSeen
    /\ exit_at # "129"
    /\ (outcome = "Dataset" /\ dataset.resources # <<>>) =>
          dataset.methodology \in {"Census", "Other"}

\* C18 witness: all rows seen lack a rating, and the set still holds a value.
C18_Witness ==
    /\ pc = "after_levels"
    /\ has_resources
    /\ Len(dataset.resources) = 3
    /\ aggregate.rep_rating_strs = {NoneRating}

\* A call of get_locations has ended, by a return or by an error.
DetectorEnded ==
    /\ pc = "idle"
    /\ countryiso3 = ""
    /\ outcome \in {"list", "KeyError"}

\* C12 (as claimed): when the remote index answers with an empty result set
\* or with none, get_locations returns the empty list, raises nothing and
\* leaves state as it was.
C12_NoResultSetNoError ==
    (DetectorEnded /\ json = <<>>) =>
        /\ outcome = "list"
        /\ locations = <<>>
        /\ state = state_in

\* A call of get_locations is running or has returned.
DetectorCall == countryiso3 = "" /\ outcome \in {"running", "list"}

\* The i-th record of the index is a change: its timestamp is later than the
\* watermark the call was entered with and than every earlier record of the
\* same identifier.
Changed(index, i) ==
    LET id == index[i].location_code
        ts == parse_date(index[i].date_creation)
    IN  /\ ts > StateGet(state_in, id)
        /\ \A j \in 1..(i - 1) :
              index[j].location_code = id =>
                  ts > parse_date(index[j].date_creation)

\* The changes among the first n records of the index, in the index's order.
RECURSIVE ChangedAmong(_, _)
ChangedAmong(index, n) ==
    IF n = 0 THEN <<>>
    ELSE ChangedAmong(index, n - 1)
         \o (IF Changed(index, n)
             THEN <<[iso3 |-> index[n].location_code]>> ELSE <<>>)

\* C13: the list get_locations builds and returns holds the changed
\* locations of the records visited, and only these, in the order of the
\* remote index.
C13_RemoteOrder ==
    DetectorCall => locations = ChangedAmong(json, Len(json) - Len(todo))

\* C13 witness: two changed locations, returned in the index's order, which
\* is not the sorted one.
C13_Witness ==
    /\ outcome = "list"
    /\ countryiso3 = ""
    /\ Len(json) = 2
    /\ locations = <<[iso3 |-> "XXX"], [iso3 |-> "BEN"]>>

\* C14: no step of generate_dataset, add_resources or get_pages changes
\* state, however the call ends; a watermark get_locations stored stays.
C14_OnlyDetectorMutatesState ==
    [][ (countryiso3' # "" \/ pc \in {"get_pages", "add_resources", "after_levels"})
           => state' = state ]_vars

\* C14 witness: BEN's watermark was advanced by get_locations, then
\* generate_dataset("BEN") found no rows at any level.
C14_Witness ==
    /\ pc = "idle"
    /\ countryiso3 = "BEN"
    /\ outcome = "Dataset"
    /\ dataset.resources = <<>>
    /\ "BEN" \in DOMAIN state
    /\ state["BEN"] = parse_date(<<2020, 6, 15>>)

\* C15: once download_json has raised during a page request, the call of
\* generate_dataset has ended with that error, no further request is made,
\* no dataset is returned and state is as it was when the call was entered.
C15_FetchErrorPropagates ==
    fetch_error =>
        /\ pc = "idle"
        /\ outcome = "DownloadError"
        /\ dataset = NoDataset
        /\ downloads = <<>>
        /\ state = state_in

\* C15 witness: the download failed at level 2, after the resources of
\* levels 0 and 1 were made and with watermarks stored by get_locations.
C15_Witness ==
    /\ fetch_error
    /\ countryiso3 = "BEN"
    /\ levels_with_rows = {0, 1}
    /\ DOMAIN state = {"DEFAULT", "BEN", "XXX"}

\* The resources of the levels of `levels`, from `level` on, in ascending
\* order of level.
RECURSIVE ResourcesFrom(_, _)
ResourcesFrom(level, levels) ==
    IF level \notin Levels THEN <<>>
    ELSE (IF level \in levels
          THEN <<resourcedata(countryiso3, level)>> ELSE <<>>)
         \o ResourcesFrom(level + 1, levels)

\* While the levels are processed: every request of the running get_pages
\* is for the country and level at hand, and the resources made are those
\* of the earlier levels that had rows, in ascending order.
LevelsInTurn ==
    /\ Len(downloads) = Len(requests)
    /\ \A i \in 1..Len(downloads) :
          downloads[i] = [url |-> "location/" \o countryiso3,
                          aggregation |-> aggregation,
                          page_size |-> PageSize,
                          page |-> i - 1]
    /\ pc \in {"get_pages", "add_resources"} =>
          /\ aggregation \in Levels
          /\ levels_with_rows \subseteq 0..(aggregation - 1)
          /\ dataset.resources = ResourcesFrom(0, levels_with_rows)
    /\ pc = "after_levels" =>
          /\ aggregation = 2
          /\ dataset.resources = ResourcesFrom(0, levels_with_rows)

\* C16: the levels of one country are processed in the order 0, 1, 2; a
\* request is made only inside get_pages and is for the country and level at
\* hand; the resource of a level is made after get_pages has returned all
\* pages of that level and before the first request of the next level.
C16_LevelsSequential ==
    /\ []LevelsInTurn
    /\ [][ /\ aggregation' # aggregation =>
                \/ /\ pc = "add_resources"
                   /\ pc' = "get_pages"
                   /\ aggregation' = aggregation + 1
                   /\ downloads' = <<>>
                \/ /\ pc' = "idle"
                   /\ aggregation' = 0
           /\ (downloads' # downloads /\ downloads' # <<>>) =>
                /\ pc = "get_pages"
                /\ Len(downloads') = Len(downloads) + 1
           /\ (pc # "idle" /\ pc' # "idle"
                 /\ dataset'.resources # dataset.resources) =>
                /\ pc = "add_resources"
                /\ RowCount(data) > 0
                /\ dataset'.resources =
                      Append(dataset.resources,
                             resourcedata(countryiso3, aggregation))
         ]_vars

\* C16 witness: the second page of level 2 has been requested; level 0 had no
\* rows, the resource of level 1 is made.
C16_Witness ==
    /\ pc = "get_pages"
    /\ countryiso3 = "BEN"
    /\ aggregation = 2
    /\ Len(downloads) = 2
    /\ downloads[2].page = 1
    /\ levels_with_rows = {1}
    /\ Len(dataset.resources) = 1

\* C17: a call of get_locations that gets the response the call before it
\* got reports nothing and leaves state as it was; and no call lowers the
\* watermark of an identifier or removes an entry.
C17_Idempotent ==
    /\ repeat => (locations = <<>> /\ state = state_in)
    /\ DetectorCall =>
          /\ DOMAIN state_in \subseteq DOMAIN state
          /\ \A id \in Countries : StateGet(state, id) >= StateGet(state_in, id)

\* C17 witness: the second of two calls with the same two records has
\* returned; the first one stored both watermarks.
C17_Witness ==
    /\ repeat
    /\ outcome = "list"
    /\ json = <<[location_code |-> "BEN", date_creation |-> <<2020, 6, 15>>],
                [location_code |-> "XXX", date_creation |-> <<2020, 6, 15>>]>>
    /\ DOMAIN state = {"DEFAULT", "BEN", "XXX"}
    /\ state["BEN"] = parse_date(<<2020, 6, 15>>)

\* C19: get_locations never changes state["DEFAULT"]; an identifier it has
\* not reported keeps its entry and value, and gets no entry if it had none.
C19_OnlyReportedEntriesChange ==
    DetectorCall =>
        /\ state["DEFAULT"] = state_in["DEFAULT"]
        /\ DOMAIN state_in \subseteq DOMAIN state
        /\ \A k \in DOMAIN state \ {"DEFAULT"} :
              (\A i \in 1..Len(locations) : locations[i].iso3 # k) =>
                  /\ k \in DOMAIN state_in
                  /\ state[k] = state_in[k]

\* C19 witness: XXX is reported and stored; BEN, listed with a timestamp that
\* is not later than its watermark, keeps its entry.
C19_Witness ==
    /\ outcome = "list"
    /\ countryiso3 = ""
    /\ json = <<[location_code |-> "XXX", date_creation |-> <<2020, 6, 15>>],
                [location_code |-> "BEN", date_creation |-> <<2013, 12, 31>>]>>
    /\ locations = <<[iso3 |-> "XXX"]>>
    /\ "BEN" \in DOMAIN state_in
    /\ state["BEN"] = state_in["BEN"]
    /\ state["DEFAULT"] = state_in["DEFAULT"]
    /\ "XXX" \in DOMAIN state

\* Every get_pages entered is left (under FairSpec).
GetPagesReturns == (pc = "get_pages") ~> (pc # "get_pages")

====
